---- MODULE Spec2Model ----
(***************************************************************************)
(* Model of packages/git/src/format.js: the diff option resolver           *)
(* process_diff_formatting_options and the renderer format_diffs.          *)
(*                                                                         *)
(* JavaScript strings are TLA+ strings (TLC evaluates \o, Len, Head and    *)
(* SubSeq on them character by character).  A JavaScript value whose type  *)
(* is not fixed (an entry of the flag map, context_lines) is a tagged      *)
(* record: Undefined, Bool(b), Str(s) or Num(n).                           *)
(***************************************************************************)
EXTENDS Naturals, Sequences, FiniteSets

VARIABLES
    options,                 \* the parsed command-line flag map
    show_patch_by_default,   \* second argument of the resolver
    diffs,                   \* first argument of format_diffs
    color,                   \* whether chalk emits escape sequences
    result,                  \* object returned by the resolver
    s,                       \* string returned by format_diffs
    pc                       \* "call" -> "return" -> "done"

vars == <<options, show_patch_by_default, diffs, color, result, s, pc>>

----------------------------------------------------------------------------
(* JavaScript values *)

Undefined == [t |-> "undefined"]
Bool(b) == [t |-> "boolean", v |-> b]
Str(x) == [t |-> "string", v |-> x]
Num(n) == [t |-> "number", v |-> n]

\* ToBoolean, as applied by `if (options[...])`.
Truthy(x) ==
    CASE x.t = "undefined" -> FALSE
      [] x.t = "boolean" -> x.v
      [] x.t = "string" -> x.v # ""
      [] x.t = "number" -> x.v # 0

Flags ==
    {"patch", "no-patch", "raw", "patch-with-raw", "numstat", "summary",
     "unified", "src-prefix", "dst-prefix", "no-prefix", "default-prefix"}

----------------------------------------------------------------------------
(* process_diff_formatting_options *)

DefaultResult ==
    [raw |-> FALSE, numstat |-> FALSE, summary |-> FALSE, patch |-> FALSE,
     context_lines |-> Num(3), no_patch |-> FALSE,
     source_prefix |-> "a/", dest_prefix |-> "b/"]

\* display_diff with the summary format left out of the test.
display_diff_WithoutSummary(r) ==
    ~r.no_patch /\ (r.raw \/ r.numstat \/ r.patch)

\* The closure stored in result.display_diff; it reads result when called.
display_diff(r) ==
    ~r.no_patch /\ (r.raw \/ r.numstat \/ r.summary \/ r.patch)

ApplyFormatFlags(r, o) ==
    LET r1 == IF Truthy(o["raw"]) THEN [r EXCEPT !.raw = TRUE] ELSE r
        r2 == IF Truthy(o["numstat"]) THEN [r1 EXCEPT !.numstat = TRUE] ELSE r1
        r3 == IF Truthy(o["summary"]) THEN [r2 EXCEPT !.summary = TRUE] ELSE r2
        r4 == IF Truthy(o["patch"]) THEN [r3 EXCEPT !.patch = TRUE] ELSE r3
        r5 == IF Truthy(o["patch-with-raw"])
              THEN [r4 EXCEPT !.patch = TRUE, !.raw = TRUE] ELSE r4
    IN  r5

ApplyUnified(r, o) ==
    IF o["unified"].t # "undefined"
    THEN [r EXCEPT !.patch = TRUE, !.context_lines = o["unified"]]
    ELSE r

\* ApplyPrefixFlags with 'default-prefix' handled after 'no-prefix'.
ApplyPrefixFlags_DefaultLast(r, o) ==
    LET r1 == IF Truthy(o["src-prefix"])
              THEN [r EXCEPT !.source_prefix = o["src-prefix"].v] ELSE r
        r2 == IF Truthy(o["dst-prefix"])
              THEN [r1 EXCEPT !.dest_prefix = o["dst-prefix"].v] ELSE r1
        r3 == IF Truthy(o["no-prefix"])
              THEN [r2 EXCEPT !.source_prefix = "", !.dest_prefix = ""] ELSE r2
        r4 == IF Truthy(o["default-prefix"])
              THEN [r3 EXCEPT !.source_prefix = "a/", !.dest_prefix = "b/"] ELSE r3
    IN  r4

ApplyPrefixFlags(r, o) ==
    LET r1 == IF Truthy(o["src-prefix"])
              THEN [r EXCEPT !.source_prefix = o["src-prefix"].v] ELSE r
        r2 == IF Truthy(o["dst-prefix"])
              THEN [r1 EXCEPT !.dest_prefix = o["dst-prefix"].v] ELSE r1
        r3 == IF Truthy(o["default-prefix"])
              THEN [r2 EXCEPT !.source_prefix = "a/", !.dest_prefix = "b/"] ELSE r2
        r4 == IF Truthy(o["no-prefix"])
              THEN [r3 EXCEPT !.source_prefix = "", !.dest_prefix = ""] ELSE r3
    IN  r4

\* ApplyDefaultPatch without the show_patch_by_default test.
ApplyDefaultPatch_Always(r, by_default) ==
    IF ~r.raw /\ ~r.numstat /\ ~r.summary /\ ~r.patch
    THEN [r EXCEPT !.patch = TRUE]
    ELSE r

ApplyDefaultPatch(r, by_default) ==
    IF by_default /\ ~r.raw /\ ~r.numstat /\ ~r.summary /\ ~r.patch
    THEN [r EXCEPT !.patch = TRUE]
    ELSE r

ApplyNoPatch(r, o) ==
    IF Truthy(o["no-patch"]) THEN [r EXCEPT !.no_patch = TRUE] ELSE r

process_diff_formatting_options(o, by_default) ==
    ApplyNoPatch(
        ApplyDefaultPatch(
            ApplyPrefixFlags(ApplyUnified(ApplyFormatFlags(DefaultResult, o), o), o),
            by_default),
        o)

----------------------------------------------------------------------------
(* Collaborators of format_diffs *)

Min(a, b) == IF a < b THEN a ELSE b

\* Abbreviation of an object id: its leading seven characters.
shorten_hash(oid) == SubSeq(oid, 1, Min(7, Len(oid)))

Digit(d) == SubSeq("0123456789", d + 1, d + 1)

\* Decimal rendering of a non-negative integer inside a template literal.
RECURSIVE ToString(_)
ToString(n) ==
    IF n < 10 THEN Digit(n) ELSE ToString(n \div 10) \o Digit(n % 10)

\* chalk: the escape character is written ESC; every bright foreground
\* colour closes with the same sequence.
BlueBright == "ESC[94m"
GreenBright == "ESC[92m"
RedBright == "ESC[91m"
ColorClose == "ESC[39m"

\* chalk closes the colour before each line feed and reopens it after.
RECURSIVE EncaseLF(_, _)
EncaseLF(text, open) ==
    IF text = "" THEN ""
    ELSE (IF Head(text) = "\n" THEN ColorClose \o "\n" \o open ELSE Head(text))
         \o EncaseLF(Tail(text), open)

chalk(open, text) ==
    IF ~color \/ text = "" THEN text
    ELSE open \o EncaseLF(text, open) \o ColorClose

startsWith(str, prefix) ==
    Len(str) >= Len(prefix) /\ SubSeq(str, 1, Len(prefix)) = prefix

----------------------------------------------------------------------------
(* format_diffs *)

RawStatus(d) ==
    IF d.a.mode = "000000" THEN "A"
    ELSE IF d.b.mode = "000000" THEN "D"
    ELSE "M"

RawLine(d) ==
    ":" \o d.a.mode \o " " \o d.b.mode \o " " \o shorten_hash(d.a.oid) \o " "
        \o shorten_hash(d.b.oid) \o " " \o RawStatus(d)
        \o "\t" \o d.diff.oldFileName \o "\n"

RECURSIVE RawLines(_)
RawLines(arr) ==
    IF arr = <<>> THEN "" ELSE RawLine(Head(arr)) \o RawLines(Tail(arr))

RawSection(arr) == RawLines(arr) \o "\n"

\* line[0]: the first character, or undefined for the empty string (which
\* becomes the property key "undefined").
FirstChar(line) == IF line = "" THEN "undefined" ELSE Head(line)

\* acc[key] || 0
OrZero(acc, key) == IF key \in DOMAIN acc THEN acc[key] ELSE 0

\* hunk.lines.reduce(..., {})
RECURSIVE first_char_counts(_, _)
first_char_counts(lines, acc) ==
    IF lines = <<>> THEN acc
    ELSE LET c == FirstChar(Head(lines))
         IN  first_char_counts(
                 Tail(lines),
                 [k \in DOMAIN acc \cup {c} |->
                     IF k = c THEN OrZero(acc, c) + 1 ELSE acc[k]])

\* CountLines assigning each hunk's counts instead of adding them.
RECURSIVE CountLines_Assigning(_, _)
CountLines_Assigning(hunks, acc) ==
    IF hunks = <<>> THEN acc
    ELSE LET counts == first_char_counts(Head(hunks).lines, [k \in {} |-> 0])
         IN  CountLines_Assigning(
                 Tail(hunks),
                 [added_lines |-> OrZero(counts, "+"),
                  deleted_lines |-> OrZero(counts, "-")])

\* diff.hunks.reduce(..., { added_lines: 0, deleted_lines: 0 })
RECURSIVE CountLines(_, _)
CountLines(hunks, acc) ==
    IF hunks = <<>> THEN acc
    ELSE LET counts == first_char_counts(Head(hunks).lines, [k \in {} |-> 0])
         IN  CountLines(
                 Tail(hunks),
                 [added_lines |-> acc.added_lines + OrZero(counts, "+"),
                  deleted_lines |-> acc.deleted_lines + OrZero(counts, "-")])

NumstatLine(d) ==
    LET n == CountLines(d.diff.hunks, [added_lines |-> 0, deleted_lines |-> 0])
    IN  ToString(n.added_lines) \o "\t" \o ToString(n.deleted_lines) \o "\t"
        \o (IF d.diff.oldFileName = d.diff.newFileName
            THEN d.diff.oldFileName \o "\n"
            ELSE d.diff.oldFileName \o " => " \o d.diff.newFileName \o "\n")

RECURSIVE NumstatSection(_)
NumstatSection(arr) ==
    IF arr = <<>> THEN "" ELSE NumstatLine(Head(arr)) \o NumstatSection(Tail(arr))

SummaryLine(d) ==
    IF d.diff.oldFileName = d.diff.newFileName THEN ""
    ELSE IF d.diff.oldFileName = "/dev/null"
         THEN "create mode " \o d.b.mode \o " " \o d.diff.newFileName \o "\n"
    ELSE IF d.diff.newFileName = "/dev/null"
         THEN "delete mode " \o d.a.mode \o " " \o d.diff.oldFileName \o "\n"
    ELSE "rename " \o d.diff.oldFileName \o " => " \o d.diff.newFileName \o "\n"

RECURSIVE SummarySection(_)
SummarySection(arr) ==
    IF arr = <<>> THEN "" ELSE SummaryLine(Head(arr)) \o SummarySection(Tail(arr))

PatchLine(line) ==
    IF FirstChar(line) = "+" THEN chalk(GreenBright, line \o "\n")
    ELSE IF FirstChar(line) = "-" THEN chalk(RedBright, line \o "\n")
    ELSE line \o "\n"

RECURSIVE PatchLines(_)
PatchLines(lines) ==
    IF lines = <<>> THEN "" ELSE PatchLine(Head(lines)) \o PatchLines(Tail(lines))

HunkHeader(hunk) ==
    chalk(BlueBright,
          "@@ -" \o ToString(hunk.oldStart) \o "," \o ToString(hunk.oldLines)
              \o " +" \o ToString(hunk.newStart) \o "," \o ToString(hunk.newLines)
              \o " @@\n")

RECURSIVE PatchHunks(_)
PatchHunks(hunks) ==
    IF hunks = <<>> THEN ""
    ELSE HunkHeader(Head(hunks)) \o PatchLines(Head(hunks).lines)
         \o PatchHunks(Tail(hunks))

a_path(d, o) ==
    IF startsWith(d.diff.oldFileName, "/") THEN d.diff.oldFileName
    ELSE o.source_prefix \o d.diff.oldFileName

b_path(d, o) ==
    IF startsWith(d.diff.newFileName, "/") THEN d.diff.newFileName
    ELSE o.dest_prefix \o d.diff.newFileName

first_line_a_path(d, o) ==
    IF a_path(d, o) # "/dev/null" THEN a_path(d, o)
    ELSE o.source_prefix \o d.diff.newFileName

PatchModeLines(d) ==
    IF d.a.mode = d.b.mode
    THEN "index " \o shorten_hash(d.a.oid) \o ".." \o shorten_hash(d.b.oid)
             \o " " \o d.a.mode
    ELSE (IF d.a.mode = "000000"
          THEN "new file mode " \o d.b.mode \o "\n"
          ELSE "old mode " \o d.a.mode \o "\n" \o "new mode " \o d.b.mode \o "\n")
         \o "index " \o shorten_hash(d.a.oid) \o ".." \o shorten_hash(d.b.oid) \o "\n"

PatchRecord(d, o) ==
    "diff --git " \o first_line_a_path(d, o) \o " " \o b_path(d, o) \o "\n"
        \o PatchModeLines(d)
        \o (IF Len(d.diff.hunks) = 0 THEN ""
            ELSE "--- " \o a_path(d, o) \o "\n" \o "+++ " \o b_path(d, o) \o "\n"
                 \o PatchHunks(d.diff.hunks))

RECURSIVE PatchSection(_, _)
PatchSection(arr, o) ==
    IF arr = <<>> THEN ""
    ELSE PatchRecord(Head(arr), o) \o PatchSection(Tail(arr), o)

\* `diffs` is [array |-> TRUE, items |-> <<...>>] or [array |-> FALSE, item |-> d].
AsArray(d) == IF d.array THEN d.items ELSE <<d.item>>

\* format_diffs with the summary block chained as the else of the numstat one.
format_diffs_SummaryElseNumstat(d, o) ==
    LET arr == AsArray(d)
        s1 == IF o.raw THEN "" \o RawSection(arr) ELSE ""
        s2 == IF o.numstat THEN s1 \o NumstatSection(arr)
              ELSE IF o.summary THEN s1 \o SummarySection(arr) ELSE s1
        s4 == IF o.patch THEN s2 \o PatchSection(arr, o) ELSE s2
    IN  s4

format_diffs(d, o) ==
    LET arr == AsArray(d)
        s1 == IF o.raw THEN "" \o RawSection(arr) ELSE ""
        s2 == IF o.numstat THEN s1 \o NumstatSection(arr) ELSE s1
        s3 == IF o.summary THEN s2 \o SummarySection(arr) ELSE s2
        s4 == IF o.patch THEN s3 \o PatchSection(arr, o) ELSE s3
    IN  s4

----------------------------------------------------------------------------
(* Inputs *)

\* Largest number of records in the array handed to format_diffs.
MaxDiffs == 2

Absent == [f \in Flags |-> Undefined]

Given == {Undefined, Bool(TRUE)}

\* Flag maps a command-line parser can produce for diff_formatting_options:
\* a boolean flag is absent or true, a string flag is absent or a string.
FlagMaps ==
    {[f \in Flags |->
        CASE f = "unified" -> u
          [] f = "src-prefix" -> sp
          [] f = "dst-prefix" -> dp
          [] OTHER -> bools[f]] :
        bools \in [Flags \ {"unified", "src-prefix", "dst-prefix"} -> Given],
        u \in {Undefined, Str(""), Str("5"), Str("abc")},
        sp \in {Undefined, Str(""), Str("s/")},
        dp \in {Undefined, Str(""), Str("d/")}}

\* The flag maps used to drive the renderer: every combination of the four
\* format booleans, with default, explicit and empty prefixes.
RenderFlagMaps ==
    {[Absent EXCEPT !["raw"] = r, !["numstat"] = n, !["summary"] = y,
                    !["patch"] = p, !["src-prefix"] = sp, !["no-prefix"] = np] :
        r \in Given, n \in Given, y \in Given, p \in Given,
        sp \in {Undefined, Str("s/")}, np \in Given}

Hunk(oldStart, oldLines, newStart, newLines, lines) ==
    [oldStart |-> oldStart, oldLines |-> oldLines,
     newStart |-> newStart, newLines |-> newLines, lines |-> lines]

DiffRecord(a_mode, a_oid, b_mode, b_oid, oldFileName, newFileName, hunks) ==
    [a |-> [mode |-> a_mode, oid |-> a_oid],
     b |-> [mode |-> b_mode, oid |-> b_oid],
     diff |-> [oldFileName |-> oldFileName, newFileName |-> newFileName,
               hunks |-> hunks]]

ZeroOid == "0000000000"

AddedFile ==
    DiffRecord("000000", ZeroOid, "100644", "bbb2222f00", "/dev/null", "x.txt",
               <<Hunk(0, 0, 1, 1, <<"+hello">>)>>)

DeletedFile ==
    DiffRecord("100644", "aaa1111f00", "000000", ZeroOid, "x.txt", "/dev/null",
               <<Hunk(1, 1, 0, 0, <<"-hello">>)>>)

ModifiedFile ==
    DiffRecord("100644", "aaa1111f00", "100644", "ccc3333f00", "m.txt", "m.txt",
               <<Hunk(1, 2, 1, 3, <<" k", "-c", "+a", "+b">>),
                 Hunk(10, 1, 12, 2, <<" z", "+d">>)>>)

ModeChangedFile ==
    DiffRecord("100644", "aaa1111f00", "100755", "aaa1111f00", "run.sh", "run.sh",
               <<>>)

RenamedFile ==
    DiffRecord("100644", "aaa1111f00", "100644", "aaa1111f00", "x.txt", "y.txt",
               <<>>)

RenamedEditedFile ==
    DiffRecord("100644", "ddd4444f00", "100755", "eee5555f00", "o.sh", "n.sh",
               <<Hunk(3, 2, 3, 2,
                      <<"-old", "\\ No newline at end of file", "+new", "">>)>>)

RewrittenFile ==
    DiffRecord("100755", "fff6666f00", "100755", "abc7777f00", "big.txt", "big.txt",
               <<Hunk(1, 1, 1, 6, <<" h", "+1", "+2", "+3", "+4", "+5">>),
                 Hunk(20, 3, 25, 1, <<"-p", "-q", " r">>),
                 Hunk(40, 0, 43, 6, <<"+6", "+7", "+8", "+9", "+10", "+11">>)>>)

DiffRecords ==
    {AddedFile, DeletedFile, ModifiedFile, ModeChangedFile, RenamedFile,
     RenamedEditedFile, RewrittenFile}

RECURSIVE SeqsUpTo(_, _)
SeqsUpTo(S, n) ==
    IF n = 0 THEN {<<>>}
    ELSE LET shorter == SeqsUpTo(S, n - 1)
         IN  shorter \cup {Append(q, x) : q \in shorter, x \in S}

\* format_diffs takes an array of records or a single record.
DiffInputs ==
    {[array |-> TRUE, items |-> q] : q \in SeqsUpTo(DiffRecords, MaxDiffs)}
        \cup {[array |-> FALSE, item |-> d] : d \in DiffRecords}

NoDiffs == [array |-> TRUE, items |-> <<>>]

----------------------------------------------------------------------------
(* The resolver alone: every flag map, then one call. *)

Init ==
    /\ options \in FlagMaps
    /\ show_patch_by_default \in BOOLEAN
    /\ diffs = NoDiffs
    /\ color = FALSE
    /\ result = Undefined
    /\ s = ""
    /\ pc = "call"

ProcessOptions ==
    /\ pc = "call"
    /\ result' = process_diff_formatting_options(options, show_patch_by_default)
    /\ pc' = "return"
    /\ UNCHANGED <<options, show_patch_by_default, diffs, color, s>>

Next == ProcessOptions

Spec == Init /\ [][Next]_vars

(* The resolver followed by the renderer on its result. *)

InitFormat ==
    /\ options \in RenderFlagMaps
    /\ show_patch_by_default \in BOOLEAN
    /\ diffs \in DiffInputs
    /\ color \in BOOLEAN
    /\ result = Undefined
    /\ s = ""
    /\ pc = "call"

FormatDiffs ==
    /\ pc = "return"
    /\ s' = format_diffs(diffs, result)
    /\ pc' = "done"
    /\ UNCHANGED <<options, show_patch_by_default, diffs, color, result>>

NextFormat == ProcessOptions \/ FormatDiffs

SpecFormat == InitFormat /\ [][NextFormat]_vars

----------------------------------------------------------------------------
(* Properties of process_diff_formatting_options (checked under Spec) *)

IsGiven(f) == options[f].t # "undefined"

NoFormatFlag ==
    \A f \in {"raw", "numstat", "summary", "patch", "patch-with-raw", "unified"} :
        ~IsGiven(f)

\* C1: display_diff() on the returned object is true exactly when no_patch is
\* false and at least one of raw, numstat, summary, patch is true; whenever
\* the 'no-patch' flag is given it is false, whatever format flags are given.
C1_DisplayDiff ==
    pc = "return" =>
        /\ display_diff(result) <=>
               (result.no_patch = FALSE
                /\ TRUE \in {result.raw, result.numstat, result.summary, result.patch})
        /\ IsGiven("no-patch") => ~display_diff(result)

C1_Witness ==
    /\ pc = "return"
    /\ IsGiven("no-patch") /\ IsGiven("summary") /\ IsGiven("unified")
    /\ result.summary /\ result.patch /\ result.no_patch
    /\ ~display_diff(result)

\* C2: a flag map with no format flag resolves, with show_patch_by_default,
\* to patch = true and raw = numstat = summary = false, whatever prefix
\* flags or 'no-patch' are given; without show_patch_by_default all four
\* format booleans are false.
C2_DefaultToPatch ==
    (pc = "return" /\ NoFormatFlag) =>
        /\ result.patch = show_patch_by_default
        /\ ~result.raw /\ ~result.numstat /\ ~result.summary

C2_Witness ==
    /\ pc = "return" /\ NoFormatFlag /\ show_patch_by_default
    /\ IsGiven("no-patch") /\ IsGiven("no-prefix") /\ IsGiven("src-prefix")
    /\ result.patch /\ ~result.raw

\* C3: with 'no-prefix' given both prefixes are empty, whatever 'src-prefix',
\* 'dst-prefix' and 'default-prefix' are; with 'default-prefix' given and
\* 'no-prefix' not, the prefixes are 'a/' and 'b/' whatever 'src-prefix' and
\* 'dst-prefix' are.
C3_PrefixPrecedence ==
    pc = "return" =>
        /\ IsGiven("no-prefix") =>
               result.source_prefix = "" /\ result.dest_prefix = ""
        /\ (IsGiven("default-prefix") /\ ~IsGiven("no-prefix")) =>
               result.source_prefix = "a/" /\ result.dest_prefix = "b/"

C3_Witness ==
    /\ pc = "return"
    /\ IsGiven("no-prefix") /\ IsGiven("default-prefix")
    /\ options["src-prefix"] = Str("s/") /\ options["dst-prefix"] = Str("d/")
    /\ result.source_prefix = "" /\ result.dest_prefix = ""

\* C4: 'src-prefix' (respectively 'dst-prefix') given as the empty string,
\* with neither 'default-prefix' nor 'no-prefix', yields source_prefix = ''
\* (respectively dest_prefix = '').
C4_EmptyPrefixOverrides ==
    (pc = "return" /\ ~IsGiven("default-prefix") /\ ~IsGiven("no-prefix")) =>
        /\ options["src-prefix"] = Str("") => result.source_prefix = ""
        /\ options["dst-prefix"] = Str("") => result.dest_prefix = ""

IsDigit(c) == \E d \in 0..9 : Digit(d) = c

IsIntegerString(x) ==
    /\ x # ""
    /\ \A i \in 1..Len(x) : IsDigit(SubSeq(x, i, i))

RECURSIVE ParseInt(_)
ParseInt(x) ==
    IF x = "" THEN 0
    ELSE 10 * ParseInt(SubSeq(x, 1, Len(x) - 1))
         + (CHOOSE d \in 0..9 : Digit(d) = SubSeq(x, Len(x), Len(x)))

\* The integer a context_lines value denotes, as a number or as its numeral.
Denotes(x, n) ==
    \/ x.t = "number" /\ x.v = n
    \/ x.t = "string" /\ IsIntegerString(x.v) /\ ParseInt(x.v) = n

\* C5: a 'unified' value that is not an integer ends in InvalidArgument and
\* returns no configuration; a call that returns with 'unified' given was
\* given an integer N and returns patch = true and context_lines = N.
C5_UnifiedIsInteger ==
    (pc = "return" /\ IsGiven("unified")) =>
        /\ IsIntegerString(options["unified"].v)
        /\ result.patch
        /\ Denotes(result.context_lines, ParseInt(options["unified"].v))

----------------------------------------------------------------------------
(* Properties of format_diffs (checked under SpecFormat) *)

FormatNames == {"raw", "numstat", "summary", "patch"}

\* The configuration r with every format boolean but f switched off.
OnlyFormat(r, f) ==
    [r EXCEPT !.raw = (f = "raw"), !.numstat = (f = "numstat"),
              !.summary = (f = "summary"), !.patch = (f = "patch")]

\* What format_diffs returns for the same input when f alone is enabled; the
\* empty string when f is disabled in the resolved configuration.
SectionAlone(f) ==
    IF result[f] THEN format_diffs(diffs, OnlyFormat(result, f)) ELSE ""

OneRecord(d) == [array |-> TRUE, items |-> <<d>>]

\* The output for each record of arr on its own, joined in input order.  The
\* raw format closes with one blank line, dropped from each piece here.
RECURSIVE RecordByRecord(_, _)
RecordByRecord(arr, f) ==
    IF arr = <<>> THEN ""
    ELSE LET one == format_diffs(OneRecord(Head(arr)), OnlyFormat(result, f))
         IN  (IF f = "raw" THEN SubSeq(one, 1, Len(one) - 1) ELSE one)
             \o RecordByRecord(Tail(arr), f)

\* C6: the output is the raw, numstat, summary and patch sections in that
\* order, a section being present iff its own boolean is true and the same
\* whatever the other three booleans are; inside a section the records come
\* in input order; a single record passed without an array gives the output
\* of the one-element array holding it.
C6_SectionsInOrder ==
    pc = "done" =>
        /\ s = SectionAlone("raw") \o SectionAlone("numstat")
                 \o SectionAlone("summary") \o SectionAlone("patch")
        /\ \A f \in FormatNames :
               result[f] =>
                   SectionAlone(f) =
                       RecordByRecord(AsArray(diffs), f)
                           \o (IF f = "raw" THEN "\n" ELSE "")
        /\ ~diffs.array => s = format_diffs(OneRecord(diffs.item), result)

C6_Witness ==
    /\ pc = "done"
    /\ result.raw /\ result.numstat /\ result.summary /\ result.patch
    /\ diffs = [array |-> TRUE, items |-> <<RenamedEditedFile, AddedFile>>]
    /\ \A f \in FormatNames : SectionAlone(f) # ""

Contains(str, sub) ==
    \E i \in 1..(Len(str) + 1 - Len(sub)) : SubSeq(str, i, i + Len(sub) - 1) = sub

LineFeeds(str) == {i \in 1..Len(str) : SubSeq(str, i, i) = "\n"}

\* The lines of str: the pieces between line feeds (the piece after the last
\* line feed is left out when it is empty).
LinesOf(str) ==
    LET ends == LineFeeds(str) \cup {Len(str) + 1}
        starts == {i \in {1} \cup {k + 1 : k \in LineFeeds(str)} : i <= Len(str)}
        EndOf(i) == CHOOSE e \in ends : e >= i /\ \A k \in ends : k >= i => e <= k
    IN  {SubSeq(str, i, EndOf(i) - 1) : i \in starts}

\* C7: in the patch section no 'diff --git <a> <b>' header line contains the
\* absent-file sentinel '/dev/null', for added, deleted, modified and renamed
\* records and every prefix configuration.
C7_HeaderWithoutSentinel ==
    (pc = "done" /\ result.patch) =>
        \A line \in LinesOf(s) :
            Contains(line, "diff --git ") => ~Contains(line, "/dev/null")

\* C8: the output is empty or ends with a newline, and every 'index <a>..<b>'
\* line of the patch section is terminated by a newline, so that the '--- '
\* line or the next record's 'diff --git' line starts on a line of its own
\* (stated for output without colour annotation).
C8_NewlineTerminated ==
    (pc = "done" /\ ~color) =>
        /\ s = "" \/ SubSeq(s, Len(s), Len(s)) = "\n"
        /\ \A line \in LinesOf(s) :
               startsWith(line, "index ") =>
                   ~Contains(line, "--- ") /\ ~Contains(line, "diff --git ")

RawOnly ==
    result.raw /\ ~result.numstat /\ ~result.summary /\ ~result.patch

\* C9: with only raw enabled, a newly added file (mode_a '000000', old path
\* '/dev/null', new path P) renders as
\* ':000000 <mode_b> <abbrev(id_a)> <abbrev(id_b)> A\tP\n' and one blank
\* line; the status letter of a record is A iff mode_a is '000000', D iff
\* mode_a is not '000000' and mode_b is, M otherwise.
C9_RawAddedFile ==
    (pc = "done" /\ RawOnly /\ Len(AsArray(diffs)) = 1) =>
        LET d == AsArray(diffs)[1]
            head == ":" \o d.a.mode \o " " \o d.b.mode \o " "
                        \o shorten_hash(d.a.oid) \o " " \o shorten_hash(d.b.oid) \o " "
            letter == SubSeq(s, Len(head) + 1, Len(head) + 1)
        IN  /\ (d.a.mode = "000000" /\ d.diff.oldFileName = "/dev/null") =>
                   s = head \o "A\t" \o d.diff.newFileName \o "\n\n"
            /\ letter = "A" <=> d.a.mode = "000000"
            /\ letter = "D" <=> (d.a.mode # "000000" /\ d.b.mode = "000000")
            /\ letter = "M" <=> (d.a.mode # "000000" /\ d.b.mode # "000000")

\* The positions <<hunk, line>> of the hunk lines of d that start with c.
LinesStartingWith(d, c) ==
    {p \in UNION {{<<h, i>> : i \in 1..Len(d.diff.hunks[h].lines)} :
                      h \in 1..Len(d.diff.hunks)} :
        startsWith(d.diff.hunks[p[1]].lines[p[2]], c)}

ExpectedNumstatLine(d) ==
    ToString(Cardinality(LinesStartingWith(d, "+"))) \o "\t"
        \o ToString(Cardinality(LinesStartingWith(d, "-"))) \o "\t"
        \o d.diff.oldFileName
        \o (IF d.diff.oldFileName = d.diff.newFileName THEN ""
            ELSE " => " \o d.diff.newFileName)
        \o "\n"

RECURSIVE ExpectedNumstat(_)
ExpectedNumstat(arr) ==
    IF arr = <<>> THEN ""
    ELSE ExpectedNumstatLine(Head(arr)) \o ExpectedNumstat(Tail(arr))

\* C10: the numstat section holds, for every record in turn, the line
\* '<added>\t<removed>\t<old_path>' (or '... <old_path> => <new_path>' when
\* the paths differ), added being the number of hunk lines over all hunks
\* whose first character is '+' and removed those whose first character is
\* '-'; context lines count toward neither and no hunks gives 0 and 0.
C10_NumstatCounts ==
    (pc = "done" /\ result.numstat) =>
        s = SectionAlone("raw") \o ExpectedNumstat(AsArray(diffs))
                \o SectionAlone("summary") \o SectionAlone("patch")

C10_Witness ==
    /\ pc = "done" /\ result.numstat /\ result.raw /\ result.patch
    /\ diffs = [array |-> TRUE, items |-> <<ModifiedFile, RenamedFile>>]
    /\ Len(ModifiedFile.diff.hunks) = 2
    /\ Cardinality(LinesStartingWith(ModifiedFile, "+")) = 3
    /\ Cardinality(LinesStartingWith(ModifiedFile, "-")) = 1
    /\ Contains(s, "3\t1\tm.txt\n0\t0\tx.txt => y.txt\n")

====
